---- MODULE Spec2Model ----
(***************************************************************************)
(* Monitoring view of the exercise-coaching wizard (MonitorInner):         *)
(* the phase/rep state machine driven by pose results, the React state it  *)
(* writes, and the modal Frame Driver (effect instance, pump, cleanup).    *)
(* Angles are degrees, modelled as integers.  The sentinel phase text,     *)
(* an em dash in the source, is written "-" here.                          *)
(***************************************************************************)
EXTENDS Integers, Sequences, FiniteSets

VARIABLES
  exerciseId,             \* sp.get("exercise") || ""
  repState,               \* repStateRef.current
  reps,                   \* useState reps
  currentPhase,           \* useState currentPhase
  isModalOpen,            \* useState isModalOpen
  modalTarget,            \* useState modalTarget ("null" | "front" | "side")
  showMediaPipeOverlay,   \* useState showMediaPipeOverlay
  modalDom,               \* modalVideoRef/modalCanvasRef are mounted
  effDeps,                \* dependency values of the last run of the modal effect
  cur,                    \* instance whose cleanup the modal effect returned (0: none)
  inst,                   \* Frame Driver instances of the modal effect: position of the
                          \* async body, `cancelled`, the Pose it created, sends not yet settled
  rafModalRef,            \* rafModalRef.current: owner of the pending frame it names
                          \* (0: null, or the handle of a frame that has fired)
  mpPoseModalRef,         \* mpPoseModalRef.current: creator of the stored Pose (0: null)
  streamTracks,           \* readyState of the tracks of streamFrontRef / streamSideRef
  pat,                    \* history: stages of the cycle's angle pattern seen since the last count
  leftStart,              \* history: an angle beyond the start threshold was seen since the last count
  fed,                    \* scripted run: results fed so far
  emitted,                \* scripted run: phases emitted so far
  mpLoaded,               \* window.__mpLoaded
  scripts,                \* script elements appended to document.body, per src
  calls,                  \* calls of ensureMPLoaded: position of each async call
  form,                   \* useState left/right Shoulder/Elbow Angle, Pos.visible, Correct
  triple,                 \* calculateAngle: the arguments A, B, C of a call
  degrees,                \* calculateAngle: the value returned, in thousandths of a degree
                          \* (-1: the call has not returned)
  mounted,                \* the monitoring view is mounted
  cam,                    \* useState frontCam / sideCam: the selected deviceId
  streams,                \* getUserMedia calls of startStream: the request, then its stream
  streamRef               \* streamFrontRef / streamSideRef: the stream held (0: null)

vars == <<exerciseId, repState, reps, currentPhase, isModalOpen, modalTarget,
          showMediaPipeOverlay, modalDom,
          effDeps, cur, inst, rafModalRef, mpPoseModalRef, streamTracks,
          pat, leftStart, fed, emitted,
          mpLoaded, scripts, calls, form, triple, degrees,
          mounted, cam, streams, streamRef>>

uiVars     == <<isModalOpen, modalTarget, showMediaPipeOverlay>>
driverVars == <<effDeps, cur, inst, rafModalRef, mpPoseModalRef, modalDom>>
trackVars  == <<repState, reps, currentPhase, pat, leftStart>>
scriptVars == <<fed, emitted>>
loaderVars == <<mpLoaded, scripts, calls>>
angleVars  == <<triple, degrees>>
streamVars == <<mounted, cam, streams, streamRef>>

----------------------------------------------------------------------------
(* Bounds *)

MaxInst == 2      \* Frame Driver instances alive at once
MaxReps == 2      \* repetitions counted per session
ScriptLen == 5    \* frames of a scripted run
MaxCoord == 2     \* landmark coordinates of an angle's points: 0..MaxCoord
MaxStreams == 4   \* getUserMedia calls of startStream in one mount
MaxCalls == 3     \* calls of ensureMPLoaded in one page lifetime

----------------------------------------------------------------------------
(* Configuration and inputs *)

Sentinel == "-"
NoEmit   == "(none)"     \* handlePhaseAndRepTracking made no setCurrentPhase call

Exercises == {"lat-raise", "db-incline-fly", "bench-press", ""}

RepStates == {"start", "lifting", "peak", "lowering", "descending", "bottom", "ascending"}

Required == {"leftShoulder", "rightShoulder", "leftHip", "rightHip", "leftElbow", "rightElbow"}

\* representative tracked angles: every threshold, and a value in each band
Angles == {10, 30, 50, 85, 90, 95, 120, 160, 170}

\* results.poseLandmarks of one Pose Source result.  lm = FALSE: undefined.
\* lAngle, rAngle: the hip-shoulder-elbow angle of each side; lVis, rVis: the
\* visibility of each shoulder, in tenths.  These results show no wrist and
\* shoulders of visibility at most 0.5, which the tracker reads all the same.
NoLandmarks == [lm |-> FALSE, present |-> {}, lAngle |-> 0, rAngle |-> 0, lVis |-> 0, rVis |-> 0]

PartialLandmarks ==
  { [lm |-> TRUE, present |-> P, lAngle |-> 50, rAngle |-> 50, lVis |-> 4, rVis |-> 4] :
      P \in {Required \ {x} : x \in Required} \cup {{}} }

FullLandmarks ==
  { [lm |-> TRUE, present |-> Required, lAngle |-> a, rAngle |-> 45, lVis |-> 4, rVis |-> 2] :
      a \in Angles }
  \cup
  { [lm |-> TRUE, present |-> Required, lAngle |-> 45, rAngle |-> a, lVis |-> v, rVis |-> 4] :
      a \in Angles, v \in {2, 4} }

Results == {NoLandmarks} \cup PartialLandmarks \cup FullLandmarks

\* one result of each kind and one angle of each band, for the runs that
\* interleave the frames with the user and the driver
BandAngles == {10, 50, 90, 120, 170}

SomeResults ==
  {NoLandmarks}
  \cup {r \in PartialLandmarks : r.present = Required \ {"leftElbow"}}
  \cup {r \in FullLandmarks : r.lVis > r.rVis /\ r.lAngle \in BandAngles}

----------------------------------------------------------------------------
(* Phase/Rep State Machine: handlePhaseAndRepTracking *)

Outcome(st, inc, ph) == [st |-> st, inc |-> inc, phase |-> ph]

\* variant: an angle at rest counts from start as well as from lowering
LatRaiseCountsAtRest(st, a) ==
  IF a > 85 /\ st = "lifting" THEN Outcome("peak", 0, "Lifting Phase (Concentric)")
  ELSE IF a <= 30 /\ st \in {"lowering", "start"} THEN Outcome("start", 1, "Starting Position")
  ELSE IF a > 30 /\ a < 85 /\ st = "start" THEN Outcome("lifting", 0, "Lifting Phase (Concentric)")
  ELSE IF a < 85 /\ st = "peak" THEN Outcome("lowering", 0, "Lowering Phase (Eccentric)")
  ELSE Outcome(st, 0, NoEmit)

\* variant: the count skips the lowering stage
LatRaiseCountsFromPeak(st, a) ==
  IF a > 85 /\ st = "lifting" THEN Outcome("peak", 0, "Lifting Phase (Concentric)")
  ELSE IF a <= 30 /\ st \in {"lowering", "peak"} THEN Outcome("start", 1, "Starting Position")
  ELSE IF a > 30 /\ a < 85 /\ st = "start" THEN Outcome("lifting", 0, "Lifting Phase (Concentric)")
  ELSE IF a < 85 /\ st = "peak" THEN Outcome("lowering", 0, "Lowering Phase (Eccentric)")
  ELSE Outcome(st, 0, NoEmit)

\* variant: the peak is left only below the start threshold
LatRaiseLatePeak(st, a) ==
  IF a > 85 /\ st = "lifting" THEN Outcome("peak", 0, "Lifting Phase (Concentric)")
  ELSE IF a <= 30 /\ st = "lowering" THEN Outcome("start", 1, "Starting Position")
  ELSE IF a > 30 /\ a < 85 /\ st = "start" THEN Outcome("lifting", 0, "Lifting Phase (Concentric)")
  ELSE IF a < 30 /\ st = "peak" THEN Outcome("lowering", 0, "Lowering Phase (Eccentric)")
  ELSE Outcome(st, 0, NoEmit)

\* variant: the count needs an angle strictly below the start threshold
LatRaiseStrict(st, a) ==
  IF a > 85 /\ st = "lifting" THEN Outcome("peak", 0, "Lifting Phase (Concentric)")
  ELSE IF a < 30 /\ st = "lowering" THEN Outcome("start", 1, "Starting Position")
  ELSE IF a > 30 /\ a < 85 /\ st = "start" THEN Outcome("lifting", 0, "Lifting Phase (Concentric)")
  ELSE IF a < 85 /\ st = "peak" THEN Outcome("lowering", 0, "Lowering Phase (Eccentric)")
  ELSE Outcome(st, 0, NoEmit)

\* variant: a frame that holds the peak shows the phase again
LatRaiseRepeatsPhase(st, a) ==
  IF a > 85 /\ st = "lifting" THEN Outcome("peak", 0, "Lifting Phase (Concentric)")
  ELSE IF a <= 30 /\ st = "lowering" THEN Outcome("start", 1, "Starting Position")
  ELSE IF a > 30 /\ a < 85 /\ st = "start" THEN Outcome("lifting", 0, "Lifting Phase (Concentric)")
  ELSE IF a < 85 /\ st = "peak" THEN Outcome("lowering", 0, "Lowering Phase (Eccentric)")
  ELSE IF st = "peak" THEN Outcome(st, 0, "Lifting Phase (Concentric)")
  ELSE Outcome(st, 0, NoEmit)

\* variant: the lift passes from start straight to peak
LatRaiseSkipsLifting(st, a) ==
  IF a > 85 /\ st \in {"lifting", "start"} THEN Outcome("peak", 0, "Lifting Phase (Concentric)")
  ELSE IF a <= 30 /\ st = "lowering" THEN Outcome("start", 1, "Starting Position")
  ELSE IF a > 30 /\ a < 85 /\ st = "start" THEN Outcome("lifting", 0, "Lifting Phase (Concentric)")
  ELSE IF a < 85 /\ st = "peak" THEN Outcome("lowering", 0, "Lowering Phase (Eccentric)")
  ELSE Outcome(st, 0, NoEmit)

LatRaise(st, a) ==
  IF a > 85 /\ st = "lifting" THEN Outcome("peak", 0, "Lifting Phase (Concentric)")
  ELSE IF a <= 30 /\ st = "lowering" THEN Outcome("start", 1, "Starting Position")
  ELSE IF a > 30 /\ a < 85 /\ st = "start" THEN Outcome("lifting", 0, "Lifting Phase (Concentric)")
  ELSE IF a < 85 /\ st = "peak" THEN Outcome("lowering", 0, "Lowering Phase (Eccentric)")
  ELSE Outcome(st, 0, NoEmit)

\* variant: the bottom is reached only strictly below the bottom threshold
InclineFlyStrict(st, a) ==
  IF a < 95 /\ st = "descending" THEN Outcome("bottom", 0, "Descent Phase (Eccentric)")
  ELSE IF a >= 160 /\ st = "ascending" THEN Outcome("start", 1, "Setup/Start Position")
  ELSE IF a < 160 /\ a > 95 /\ st = "start" THEN Outcome("descending", 0, "Descent Phase (Eccentric)")
  ELSE IF a > 95 /\ st = "bottom" THEN Outcome("ascending", 0, "Ascent Phase (Concentric)")
  ELSE Outcome(st, 0, NoEmit)

InclineFly(st, a) ==
  IF a <= 95 /\ st = "descending" THEN Outcome("bottom", 0, "Descent Phase (Eccentric)")
  ELSE IF a >= 160 /\ st = "ascending" THEN Outcome("start", 1, "Setup/Start Position")
  ELSE IF a < 160 /\ a > 95 /\ st = "start" THEN Outcome("descending", 0, "Descent Phase (Eccentric)")
  ELSE IF a > 95 /\ st = "bottom" THEN Outcome("ascending", 0, "Ascent Phase (Concentric)")
  ELSE Outcome(st, 0, NoEmit)

\* variant: the first and the last rule both apply at the peak threshold
LatRaiseRulesOverlap(st, a) ==
  << [on |-> a >= 85 /\ st \in {"lifting", "peak"}, out |-> Outcome("peak", 0, "Lifting Phase (Concentric)")],
     [on |-> a <= 30 /\ st = "lowering", out |-> Outcome("start", 1, "Starting Position")],
     [on |-> a > 30 /\ a < 85 /\ st = "start", out |-> Outcome("lifting", 0, "Lifting Phase (Concentric)")],
     [on |-> a <= 85 /\ st = "peak", out |-> Outcome("lowering", 0, "Lowering Phase (Eccentric)")] >>

\* the four rules of each table, in source order: condition and effect
LatRaiseRules(st, a) ==
  << [on |-> a > 85 /\ st = "lifting", out |-> Outcome("peak", 0, "Lifting Phase (Concentric)")],
     [on |-> a <= 30 /\ st = "lowering", out |-> Outcome("start", 1, "Starting Position")],
     [on |-> a > 30 /\ a < 85 /\ st = "start", out |-> Outcome("lifting", 0, "Lifting Phase (Concentric)")],
     [on |-> a < 85 /\ st = "peak", out |-> Outcome("lowering", 0, "Lowering Phase (Eccentric)")] >>

InclineFlyRules(st, a) ==
  << [on |-> a <= 95 /\ st = "descending", out |-> Outcome("bottom", 0, "Descent Phase (Eccentric)")],
     [on |-> a >= 160 /\ st = "ascending", out |-> Outcome("start", 1, "Setup/Start Position")],
     [on |-> a < 160 /\ a > 95 /\ st = "start", out |-> Outcome("descending", 0, "Descent Phase (Eccentric)")],
     [on |-> a > 95 /\ st = "bottom", out |-> Outcome("ascending", 0, "Ascent Phase (Concentric)")] >>

Rules(ex, st, a) == IF ex = "lat-raise" THEN LatRaiseRules(st, a) ELSE InclineFlyRules(st, a)

\* the orders in which an if / else-if chain can list four rules
Orders == {o \in [1..4 -> 1..4] : \A j, k \in 1..4 : j # k => o[j] # o[k]}

\* the chain evaluated in the given order: the first rule that applies
FirstMatch(rules, order, st) ==
  LET hits == {k \in 1..4 : rules[order[k]].on}
  IN IF hits = {} THEN Outcome(st, 0, NoEmit)
     ELSE rules[order[CHOOSE k \in hits : \A m \in hits : k <= m]].out

\* variant: an unlisted exercise is tracked with the lateral-raise table
DefaultAsLatRaise(st, a) == LatRaise(st, a)

DefaultCase(st, a) == Outcome(st, 0, Sentinel)

\* variant: only the shoulders are required
MissingShoulder(lms) == ~({"leftShoulder", "rightShoulder"} \subseteq lms.present)

MissingLandmark(lms) == ~(Required \subseteq lms.present)

\* variant: equal visibilities choose the left side
angleToTrackTiesLeft(lms) == IF lms.lVis >= lms.rVis THEN lms.lAngle ELSE lms.rAngle

angleToTrack(lms) == IF lms.lVis > lms.rVis THEN lms.lAngle ELSE lms.rAngle

handlePhaseAndRepTracking(ex, st, lms) ==
  IF MissingLandmark(lms) THEN Outcome(st, 0, Sentinel)
  ELSE CASE ex = "lat-raise"      -> LatRaise(st, angleToTrack(lms))
         [] ex = "db-incline-fly" -> InclineFly(st, angleToTrack(lms))
         [] OTHER                 -> DefaultCase(st, angleToTrack(lms))

\* onResults up to the phase/rep update: the canvas guard, then tracking
\* only when results.poseLandmarks is defined
TrackResult(ex, st, dom, res) ==
  IF ~dom THEN Outcome(st, 0, NoEmit)
  ELSE IF res.lm THEN handlePhaseAndRepTracking(ex, st, res)
  ELSE Outcome(st, 0, NoEmit)

----------------------------------------------------------------------------
(* Angle Calculator: calculateAngle.  Points lie on a small grid, on which *)
(* Math.atan2 takes the values below; angles are thousandths of a degree.  *)

Undefined == [def |-> FALSE, x |-> 0, y |-> 0]

GridPoints == {[def |-> TRUE, x |-> px, y |-> py] : px, py \in 0..MaxCoord}

Abs(n) == IF n < 0 THEN -n ELSE n

\* Math.atan2(y, x) * 180 / Math.PI for -2 <= x, y <= 2, rounded to 0.001
Atan2(y, x) ==
  LET ax == Abs(x)
      ay == Abs(y)
      q  == IF ay = 0 THEN 0
            ELSE IF ax = 0 THEN 90000
            ELSE IF ax = ay THEN 45000
            ELSE IF ax = 2 * ay THEN 26565
            ELSE 63435
  IN IF x >= 0 THEN (IF y >= 0 THEN q ELSE -q)
     ELSE (IF y >= 0 THEN 180000 - q ELSE q - 180000)

\* variant: the difference of the two directions is returned unfolded
calculateAngleUnfolded(A, B, C) ==
  IF ~A.def \/ ~B.def \/ ~C.def THEN 0
  ELSE LET a == B.x - A.x
           b == B.y - A.y
           c == B.x - C.x
           d == B.y - C.y
       IN Abs(Atan2(d, c) - Atan2(b, a))

calculateAngle(A, B, C) ==
  IF ~A.def \/ ~B.def \/ ~C.def THEN 0
  ELSE LET a == B.x - A.x
           b == B.y - A.y
           c == B.x - C.x
           d == B.y - C.y
           angle == Atan2(d, c) - Atan2(b, a)
           deg == Abs(angle)
       IN IF deg > 180000 THEN 360000 - deg ELSE deg

\* no call made
AngleInit ==
  /\ triple = <<Undefined, Undefined, Undefined>>
  /\ degrees = -1

\* a call calculateAngle(A, B, C) returns
angleCall(A, B, C) ==
  /\ triple' = <<A, B, C>>
  /\ degrees' = calculateAngle(A, B, C)

----------------------------------------------------------------------------
(* Form Evaluator: updateShoulderAngles, updateElbowAngles, checkForm *)

Points == Required \cup {"leftWrist", "rightWrist"}

Joints == {"shoulder", "elbow"}

\* lAngle = 0, lPos.visible = false, lCorrect = true
Hidden == [angle |-> 0, visible |-> FALSE, correct |-> TRUE]

FormInit == [j \in Joints |-> [left |-> Hidden, right |-> Hidden]]

Configured == {"lat-raise", "db-incline-fly"}

\* EXERCISE_THRESHOLDS[exerciseId]?.[joint], for a configured exercise
EXERCISE_THRESHOLDS(ex, joint) ==
  CASE ex = "lat-raise" /\ joint = "shoulder"      -> [min |-> 10, max |-> 90]
    [] ex = "lat-raise" /\ joint = "elbow"         -> [min |-> 150, max |-> 180]
    [] ex = "db-incline-fly" /\ joint = "shoulder" -> [min |-> 45, max |-> 180]
    [] ex = "db-incline-fly" /\ joint = "elbow"    -> [min |-> 150, max |-> 170]

\* variant: the bounds are exclusive
checkFormExclusive(angle, threshold) == angle > threshold.min /\ angle < threshold.max

checkForm(angle, threshold) == angle >= threshold.min /\ angle <= threshold.max

\* the three points of a joint's angle
JointPoints(joint, side) ==
  CASE joint = "shoulder" /\ side = "left"  -> {"leftHip", "leftShoulder", "leftElbow"}
    [] joint = "shoulder" /\ side = "right" -> {"rightHip", "rightShoulder", "rightElbow"}
    [] joint = "elbow" /\ side = "left"     -> {"leftShoulder", "leftElbow", "leftWrist"}
    [] joint = "elbow" /\ side = "right"    -> {"rightShoulder", "rightElbow", "rightWrist"}

\* the visibility of the joint's own landmark, in tenths
JointVisibility(lms, joint, side) ==
  CASE joint = "shoulder" /\ side = "left"  -> lms.lVis
    [] joint = "shoulder" /\ side = "right" -> lms.rVis
    [] joint = "elbow" /\ side = "left"     -> lms.leVis
    [] joint = "elbow" /\ side = "right"    -> lms.reVis

\* calculateAngle of the joint's three points
JointAngle(lms, joint, side) ==
  CASE joint = "shoulder" /\ side = "left"  -> lms.lAngle
    [] joint = "shoulder" /\ side = "right" -> lms.rAngle
    [] joint = "elbow" /\ side = "left"     -> lms.leAngle
    [] joint = "elbow" /\ side = "right"    -> lms.reAngle

\* one side of a joint: the defaults, replaced when its three points exist
\* and the joint's visibility exceeds 0.5
Candidate(ex, lms, joint, side) ==
  IF JointPoints(joint, side) \subseteq lms.present /\ JointVisibility(lms, joint, side) > 5
  THEN [angle   |-> JointAngle(lms, joint, side),
        visible |-> TRUE,
        correct |-> IF ex \in Configured
                    THEN checkForm(JointAngle(lms, joint, side), EXERCISE_THRESHOLDS(ex, joint))
                    ELSE TRUE]
  ELSE Hidden

\* variant: equal visibilities surface the left side
updateJointAnglesTiesLeft(ex, target, lms, joint) ==
  LET l == Candidate(ex, lms, joint, "left")
      r == Candidate(ex, lms, joint, "right")
  IN IF target = "side"
     THEN IF l.visible /\ ~r.visible THEN [left |-> l, right |-> Hidden]
          ELSE IF r.visible /\ ~l.visible THEN [left |-> Hidden, right |-> r]
          ELSE IF l.visible /\ r.visible
               THEN IF JointVisibility(lms, joint, "left") >= JointVisibility(lms, joint, "right")
                    THEN [left |-> l, right |-> Hidden]
                    ELSE [left |-> Hidden, right |-> r]
               ELSE [left |-> l, right |-> r]
     ELSE [left |-> l, right |-> r]

\* the six values the function sets for one joint: both sides, and in the
\* side view the suppression of one of them
updateJointAngles(ex, target, lms, joint) ==
  LET l == Candidate(ex, lms, joint, "left")
      r == Candidate(ex, lms, joint, "right")
  IN IF target = "side"
     THEN IF l.visible /\ ~r.visible THEN [left |-> l, right |-> Hidden]
          ELSE IF r.visible /\ ~l.visible THEN [left |-> Hidden, right |-> r]
          ELSE IF l.visible /\ r.visible
               THEN IF JointVisibility(lms, joint, "left") > JointVisibility(lms, joint, "right")
                    THEN [left |-> l, right |-> Hidden]
                    ELSE [left |-> Hidden, right |-> r]
               ELSE [left |-> l, right |-> r]
     ELSE [left |-> l, right |-> r]

updateShoulderAngles(ex, target, lms) == updateJointAngles(ex, target, lms, "shoulder")

updateElbowAngles(ex, target, lms) == updateJointAngles(ex, target, lms, "elbow")

----------------------------------------------------------------------------
(* History of the frames processed: the progress of the tracked angle      *)
(* through the exercise's cycle since the last count.                      *)

ResKind(dom, res) ==
  IF ~dom THEN "skipped"
  ELSE IF ~res.lm THEN "nolm"
  ELSE IF MissingLandmark(res) THEN "partial"
  ELSE "full"

\* the ordered angle pattern of one cycle, matched on the angles alone
PatNext(ex, p, a) ==
  CASE ex = "lat-raise" ->
         IF p = 0 /\ a > 30 /\ a < 85 THEN 1
         ELSE IF p = 1 /\ a > 85 THEN 2
         ELSE IF p = 2 /\ a < 85 THEN 3
         ELSE p
    [] ex = "db-incline-fly" ->
         IF p = 0 /\ a > 95 /\ a < 160 THEN 1
         ELSE IF p = 1 /\ a <= 95 THEN 2
         ELSE IF p = 2 /\ a > 95 THEN 3
         ELSE p
    [] OTHER -> p

BeyondStart(ex, a) ==
  CASE ex = "lat-raise"      -> a > 30
    [] ex = "db-incline-fly" -> a < 160
    [] OTHER                 -> FALSE

----------------------------------------------------------------------------
(* Frame Driver instances of the modal effect.  An instance is one run of  *)
(* the effect: its closure variable `cancelled`, the position of its async *)
(* body and pump, and the Pose it created.                                 *)

Slots == 1..MaxInst

Fresh == [pc |-> "free", cancelled |-> FALSE, pose |-> "none", out |-> 0]

\* the values the modal effect depends on, but for showPoseOverlay: the model
\* keeps no value for it, its toggle forces the effect to run again
Deps == [open |-> isModalOpen, target |-> modalTarget, phase |-> currentPhase,
         mp |-> showMediaPipeOverlay]

\* cancelAnimationFrame(h): a pending callback of the handle's owner never runs
CancelRaf(f, h) == IF h # 0 /\ f[h].pc = "raf" THEN [f EXCEPT ![h].pc = "done"] ELSE f

\* ref.current?.close()
ClosePose(f, p) == IF p # 0 THEN [f EXCEPT ![p].pose = "closed"] ELSE f

Min(S) == CHOOSE x \in S : \A y \in S : x <= y

\* an instance that has ended and that neither ref nor the effect names any
\* more can do nothing and be reached by nothing: its slot is free again
Forget(f, raf, mp, c) ==
  [i \in Slots |-> IF f[i].pc = "done" /\ raf # i /\ mp # i /\ c # i THEN Fresh ELSE f[i]]

Driver(f, raf, mp, c) ==
  /\ inst' = Forget(f, raf, mp, c)
  /\ rafModalRef' = raf
  /\ mpPoseModalRef' = mp
  /\ cur' = c

----------------------------------------------------------------------------
(* The Pose Source library loader, shared by every driver of the page *)

ScriptSrcs == {"drawing_utils.js", "pose.js"}

Calls == 1..MaxCalls

\* a fresh page: no flag, no script element, no call made
LoaderInit ==
  /\ mpLoaded = FALSE
  /\ scripts = [src \in ScriptSrcs |-> 0]
  /\ calls = [c \in Calls |-> "idle"]

\* loadScript(src): a script element is appended, the promise is pending
loadScript(src) == [scripts EXCEPT ![src] = @ + 1]

\* a driver calls ensureMPLoaded(): the flag test, then up to the first await
ensureMPLoaded(c) ==
  /\ calls[c] = "idle"
  /\ IF mpLoaded
     THEN calls' = [calls EXCEPT ![c] = "done"] /\ UNCHANGED <<mpLoaded, scripts>>
     ELSE /\ scripts' = loadScript("drawing_utils.js")
          /\ calls' = [calls EXCEPT ![c] = "drawing_utils.js"]
          /\ UNCHANGED mpLoaded

\* s.onload of the script call c awaits: the next loadScript, or the flag
loadScriptResolve(c) ==
  \/ /\ calls[c] = "drawing_utils.js"
     /\ scripts' = loadScript("pose.js")
     /\ calls' = [calls EXCEPT ![c] = "pose.js"]
     /\ UNCHANGED mpLoaded
  \/ /\ calls[c] = "pose.js"
     /\ mpLoaded' = TRUE
     /\ calls' = [calls EXCEPT ![c] = "done"]
     /\ UNCHANGED scripts

\* s.onerror: the call rejects, the flag stays unset
loadScriptReject(c) ==
  /\ calls[c] \in ScriptSrcs
  /\ calls' = [calls EXCEPT ![c] = "failed"]
  /\ UNCHANGED <<mpLoaded, scripts>>

----------------------------------------------------------------------------
(* Camera streams: startStream, one getUserMedia call per camera selection *)

Targets == {"front", "side"}

Devices == {"camA", "camB"}

StreamIds == 1..MaxStreams

NoStream == [st |-> "free", target |-> "front"]

\* stopStream(s): s?.getTracks().forEach(t => t.stop())
stopStream(track) == "ended"

\* stopStream(streamFrontRef.current); stopStream(streamSideRef.current)
StopHeld(strs, refs) ==
  [r \in StreamIds |-> IF r \in {refs[t] : t \in Targets} /\ strs[r].st = "live"
                       THEN [strs[r] EXCEPT !.st = stopStream(@)]
                       ELSE strs[r]]

\* readyState of the tracks of the stream each ref holds
TracksHeld(strs, refs) ==
  [t \in Targets |-> IF refs[t] = 0 THEN "none" ELSE strs[refs[t]].st]

\* a mounted view whose two cameras were selected and whose streams arrived
StreamsStarted ==
  /\ mounted = TRUE
  /\ cam = [front |-> "camA", side |-> "camB"]
  /\ streams = [r \in StreamIds |-> IF r = 1 THEN [st |-> "live", target |-> "front"]
                                     ELSE IF r = 2 THEN [st |-> "live", target |-> "side"]
                                     ELSE NoStream]
  /\ streamRef = [front |-> 1, side |-> 2]
  /\ streamTracks = TracksHeld(streams, streamRef)

----------------------------------------------------------------------------
Init ==
  /\ exerciseId \in Exercises
  /\ repState = "start"
  /\ reps = 0
  /\ currentPhase = Sentinel
  /\ isModalOpen = FALSE
  /\ modalTarget = "null"
  /\ showMediaPipeOverlay = TRUE
  /\ modalDom = FALSE
  /\ effDeps = [open |-> FALSE, target |-> "null", phase |-> Sentinel, mp |-> TRUE]
  /\ cur = 0
  /\ inst = [i \in Slots |-> Fresh]
  /\ rafModalRef = 0
  /\ mpPoseModalRef = 0
  /\ StreamsStarted
  /\ pat = 0
  /\ leftStart = FALSE
  /\ fed = << >>
  /\ emitted = << >>
  /\ LoaderInit
  /\ AngleInit
  /\ form = FormInit

----------------------------------------------------------------------------
(* The modal tracking effect: once a dependency has changed, React runs    *)
(* the previous run's cleanup and then the effect again.                   *)

\* return () => { cancelled = true; cancelAnimationFrame; close; null the refs }
Cleanup(f, c) == ClosePose(CancelRaf([f EXCEPT ![c].cancelled = TRUE], rafModalRef), mpPoseModalRef)

\* useEffect(..., [isModalOpen, modalTarget, exerciseId, currentPhase,
\*                 showPoseOverlay, showMediaPipeOverlay]) with dependencies d
RunModalEffect(d, changed) ==
  IF d = effDeps /\ ~changed THEN UNCHANGED driverVars
  ELSE
    LET f1   == IF cur # 0 THEN Forget(Cleanup(inst, cur), 0, 0, 0) ELSE inst
        raf1 == IF cur # 0 THEN 0 ELSE rafModalRef
        mp1  == IF cur # 0 THEN 0 ELSE mpPoseModalRef
        run  == d.open /\ d.target # "null"
        free == {i \in Slots : f1[i].pc = "free"}
    IN /\ run => free # {}
       /\ IF run
          THEN Driver([f1 EXCEPT ![Min(free)] = [Fresh EXCEPT !.pc = "load"]], raf1, mp1, Min(free))
          ELSE Driver(f1, raf1, mp1, 0)
       \* the modal's video and canvas exist once the target's stream does
       /\ modalDom' \in IF ~run THEN {FALSE}
                        ELSE IF effDeps.open /\ effDeps.target = d.target THEN {modalDom, TRUE}
                        ELSE BOOLEAN
       /\ effDeps' = d

\* the render that follows setCurrentPhase in onResults
modalEffect ==
  /\ Deps # effDeps
  /\ RunModalEffect(Deps, FALSE)
  /\ UNCHANGED <<exerciseId, angleVars, loaderVars, form, streamTracks, streamVars, uiVars, trackVars, scriptVars>>

----------------------------------------------------------------------------
(* User actions.  React renders a click or key handler's updates, and runs *)
(* the effects of that render, before the next event is handled.           *)

openModal(target) ==
  /\ isModalOpen' = TRUE
  /\ modalTarget' = target
  /\ RunModalEffect([Deps EXCEPT !.open = TRUE, !.target = target], FALSE)
  /\ UNCHANGED <<exerciseId, angleVars, loaderVars, form, streamTracks, streamVars, showMediaPipeOverlay, trackVars, scriptVars>>

\* variant: closing the modal also stops the camera streams
closeModalStopsStreams ==
  /\ isModalOpen' = FALSE
  /\ modalTarget' = "null"
  /\ RunModalEffect([Deps EXCEPT !.open = FALSE, !.target = "null"], FALSE)
  /\ streamTracks' = [t \in DOMAIN streamTracks |-> "ended"]
  /\ streams' = StopHeld(streams, streamRef)
  /\ UNCHANGED <<mounted, cam, streamRef>>
  /\ UNCHANGED <<exerciseId, angleVars, loaderVars, form, showMediaPipeOverlay, trackVars, scriptVars>>

\* variant: closing the modal also clears the count
closeModalClearsReps ==
  /\ isModalOpen' = FALSE
  /\ modalTarget' = "null"
  /\ RunModalEffect([Deps EXCEPT !.open = FALSE, !.target = "null"], FALSE)
  /\ reps' = 0
  /\ UNCHANGED <<exerciseId, angleVars, loaderVars, form, streamTracks, streamVars, showMediaPipeOverlay, repState, currentPhase, pat, leftStart, scriptVars>>

closeModal ==
  /\ isModalOpen' = FALSE
  /\ modalTarget' = "null"
  /\ RunModalEffect([Deps EXCEPT !.open = FALSE, !.target = "null"], FALSE)
  /\ UNCHANGED <<exerciseId, angleVars, loaderVars, form, streamTracks, streamVars, showMediaPipeOverlay, trackVars, scriptVars>>

\* the toggle buttons are rendered inside the modal
toggleMediaPipeOverlay ==
  /\ isModalOpen
  /\ showMediaPipeOverlay' = ~showMediaPipeOverlay
  /\ RunModalEffect([Deps EXCEPT !.mp = ~showMediaPipeOverlay], FALSE)
  /\ UNCHANGED <<exerciseId, angleVars, loaderVars, form, streamTracks, streamVars, isModalOpen, modalTarget, trackVars, scriptVars>>

togglePoseOverlay ==
  /\ isModalOpen
  /\ RunModalEffect(Deps, TRUE)
  /\ UNCHANGED <<exerciseId, angleVars, loaderVars, form, streamTracks, streamVars, uiVars, trackVars, scriptVars>>

\* variant: Finish Session also returns the state machine to its start
handleFinishSessionResetsCycle ==
  /\ streamTracks' = [t \in DOMAIN streamTracks |-> stopStream(streamTracks[t])]
  /\ streams' = StopHeld(streams, streamRef)
  /\ UNCHANGED <<mounted, cam, streamRef>>
  /\ Driver(ClosePose(CancelRaf(inst, rafModalRef), mpPoseModalRef), rafModalRef, mpPoseModalRef, cur)
  /\ reps' = 0
  /\ repState' = "start"
  /\ currentPhase' = Sentinel
  /\ UNCHANGED <<exerciseId, angleVars, loaderVars, form, uiVars, effDeps, modalDom,
                 pat, leftStart, scriptVars>>

\* stopStream of both streams, the modal driver's part of the teardown, setReps(0)
handleFinishSession ==
  /\ streamTracks' = [t \in DOMAIN streamTracks |-> stopStream(streamTracks[t])]
  /\ streams' = StopHeld(streams, streamRef)
  /\ UNCHANGED <<mounted, cam, streamRef>>
  /\ Driver(ClosePose(CancelRaf(inst, rafModalRef), mpPoseModalRef), rafModalRef, mpPoseModalRef, cur)
  /\ reps' = 0
  /\ UNCHANGED <<exerciseId, angleVars, loaderVars, form, uiVars, effDeps, modalDom,
                 repState, currentPhase, pat, leftStart, scriptVars>>

\* a later render of the open modal, after the target's stream arrived
renderModalVideo ==
  /\ effDeps.open /\ isModalOpen /\ modalTarget = effDeps.target
  /\ ~modalDom
  /\ modalDom' = TRUE
  /\ UNCHANGED <<exerciseId, angleVars, loaderVars, form, streamTracks, streamVars, uiVars, trackVars, scriptVars,
                 effDeps, cur, inst, rafModalRef, mpPoseModalRef>>

----------------------------------------------------------------------------
(* One Frame Driver instance: the async body of the effect and its pump *)

\* new Pose(...); mpPoseModalRef.current = pose; rafModalRef.current = requestAnimationFrame(pump)
StartPump(i) == Driver([inst EXCEPT ![i].pose = "open", ![i].pc = "raf"], i, i, cur)

\* the handle stored in rafModalRef once i's pending frame has fired
Fired(i) == IF rafModalRef = i THEN 0 ELSE rafModalRef

\* the async function returns or throws
Halt(i) == Driver([inst EXCEPT ![i].pc = "done"], Fired(i), mpPoseModalRef, cur)

\* await ensureMPLoaded() returns
ensureMPLoadedDone(i) ==
  /\ inst[i].pc = "load"
  /\ IF inst[i].cancelled THEN Halt(i)
     ELSE IF modalDom
          THEN Driver([inst EXCEPT ![i].pc = "play"], rafModalRef, mpPoseModalRef, cur)
          ELSE StartPump(i)
  /\ UNCHANGED <<exerciseId, angleVars, loaderVars, form, streamTracks, streamVars, uiVars, trackVars, scriptVars, effDeps, modalDom>>

\* await modalVideoRef.current.play() resolves
playDone(i) ==
  /\ inst[i].pc = "play"
  /\ StartPump(i)
  /\ UNCHANGED <<exerciseId, angleVars, loaderVars, form, streamTracks, streamVars, uiVars, trackVars, scriptVars, effDeps, modalDom>>

\* play() rejects: the async body ends
playFail(i) ==
  /\ inst[i].pc = "play"
  /\ Halt(i)
  /\ UNCHANGED <<exerciseId, angleVars, loaderVars, form, streamTracks, streamVars, uiVars, trackVars, scriptVars, effDeps, modalDom>>

\* variant: pump requests the next frame without awaiting the send
PumpStepNoAwait(i, cancelled, ready) ==
  IF cancelled THEN Halt(i)
  ELSE IF ready
       THEN IF mpPoseModalRef = 0 THEN Halt(i)
            ELSE Driver([inst EXCEPT ![i].out = @ + 1], i, mpPoseModalRef, cur)
       ELSE Driver(inst, i, mpPoseModalRef, cur)

\* variant: pump without its first line
PumpStepUnguarded(i, cancelled, ready) ==
  IF ready
  THEN IF mpPoseModalRef = 0 THEN Halt(i)
       ELSE Driver([inst EXCEPT ![i].pc = "send", ![i].out = @ + 1], Fired(i), mpPoseModalRef, cur)
  ELSE Driver(inst, i, mpPoseModalRef, cur)

\* the animation frame fires: pump up to its await, or to its end
PumpStep(i, cancelled, ready) ==
  IF cancelled THEN Halt(i)
  ELSE IF ready
       THEN IF mpPoseModalRef = 0 THEN Halt(i)
            ELSE Driver([inst EXCEPT ![i].pc = "send", ![i].out = @ + 1], Fired(i), mpPoseModalRef, cur)
       ELSE Driver(inst, i, mpPoseModalRef, cur)

pump(i) ==
  /\ inst[i].pc = "raf"
  /\ \E readyState \in {0, 4} :
        PumpStep(i, inst[i].cancelled, modalDom /\ readyState >= 2)
  /\ UNCHANGED <<exerciseId, angleVars, loaderVars, form, streamTracks, streamVars, uiVars, trackVars, scriptVars, effDeps, modalDom>>

\* the calls onResults makes on a result, in order
onResultsStages(dom, res, mp) ==
  IF ~dom THEN << >>
  ELSE (IF res.lm THEN <<"handlePhaseAndRepTracking">> ELSE << >>)
       \o (IF mp /\ res.lm
           THEN <<"updateShoulderAngles", "updateElbowAngles", "drawLandmarks">>
           ELSE << >>)

\* the effect of onResults(res) on the tracking state
Track(res) ==
  LET o == TrackResult(exerciseId, repState, modalDom, res)
      k == ResKind(modalDom, res)
      a == IF k = "full" THEN angleToTrack(res) ELSE -1
  IN /\ repState' = o.st
     /\ reps' = reps + o.inc
     /\ currentPhase' = IF o.phase = NoEmit THEN currentPhase ELSE o.phase
     /\ pat' = IF o.inc = 1 THEN 0
               ELSE IF k = "full" THEN PatNext(exerciseId, pat, a) ELSE pat
     /\ leftStart' = IF o.inc = 1 THEN FALSE
                     ELSE IF k = "full" /\ BeyondStart(exerciseId, a) THEN TRUE ELSE leftStart

\* the effect of onResults(res) on the form values: the two updates run
\* when the overlay is shown and results.poseLandmarks is defined.  The
\* closure's showMediaPipeOverlay and modalTarget are those of the effect's run.
Evaluate(res) ==
  form' = IF modalDom /\ effDeps.mp /\ res.lm
          THEN [shoulder |-> updateShoulderAngles(exerciseId, effDeps.target, res),
                elbow    |-> updateElbowAngles(exerciseId, effDeps.target, res)]
          ELSE form

\* send resolves: onResults ran, then pump requests the next frame
sendDone(i, res) ==
  /\ inst[i].pc = "send"
  /\ reps + TrackResult(exerciseId, repState, modalDom, res).inc <= MaxReps
  /\ Track(res)
  /\ Evaluate(res)
  /\ Driver([inst EXCEPT ![i].pc = "raf", ![i].out = @ - 1], i, mpPoseModalRef, cur)
  /\ UNCHANGED <<exerciseId, angleVars, loaderVars, streamTracks, streamVars, uiVars, scriptVars, effDeps, modalDom>>

\* send rejects: pump ends without requesting a frame
sendFail(i) ==
  /\ inst[i].pc = "send"
  /\ Driver([inst EXCEPT ![i].pc = "done", ![i].out = @ - 1], Fired(i), mpPoseModalRef, cur)
  /\ UNCHANGED <<exerciseId, angleVars, loaderVars, form, streamTracks, streamVars, uiVars, trackVars, scriptVars, effDeps, modalDom>>

----------------------------------------------------------------------------
Next ==
  \/ \E t \in {"front", "side"} : openModal(t)
  \/ closeModal
  \/ toggleMediaPipeOverlay
  \/ togglePoseOverlay
  \/ handleFinishSession
  \/ modalEffect
  \/ renderModalVideo
  \/ \E i \in Slots : ensureMPLoadedDone(i)
  \/ \E i \in Slots : playDone(i)
  \/ \E i \in Slots : playFail(i)
  \/ \E i \in Slots : pump(i)
  \/ \E i \in Slots, res \in SomeResults : sendDone(i, res)
  \/ \E i \in Slots : sendFail(i)

Spec == Init /\ [][Next]_vars

----------------------------------------------------------------------------
(* Frames of an open, mounted modal whose instance is pumping: every kind  *)
(* of result and every angle, the effect running again on each new phase.  *)

InitFrames ==
  /\ exerciseId \in Exercises
  /\ repState = "start"
  /\ reps = 0
  /\ currentPhase = Sentinel
  /\ isModalOpen = TRUE
  /\ modalTarget = "front"
  /\ showMediaPipeOverlay = TRUE
  /\ modalDom = TRUE
  /\ effDeps = [open |-> TRUE, target |-> "front", phase |-> Sentinel, mp |-> TRUE]
  /\ cur = 1
  /\ inst = [i \in Slots |-> IF i = 1 THEN [pc |-> "send", cancelled |-> FALSE, pose |-> "open", out |-> 1]
                                      ELSE Fresh]
  /\ rafModalRef = 0
  /\ mpPoseModalRef = 1
  /\ StreamsStarted
  /\ pat = 0
  /\ leftStart = FALSE
  /\ fed = << >>
  /\ emitted = << >>
  /\ LoaderInit
  /\ AngleInit
  /\ form = FormInit

NextFrames ==
  \/ handleFinishSession
  \/ modalEffect
  \/ \E i \in Slots : ensureMPLoadedDone(i)
  \/ \E i \in Slots : playDone(i)
  \/ \E i \in Slots : pump(i)
  \/ \E i \in Slots, res \in Results : sendDone(i, res)

SpecFrames == InitFrames /\ [][NextFrames]_vars

----------------------------------------------------------------------------
(* A scripted run: a sequence of tracked angles, one per frame, fed to     *)
(* onResults of the same modal.                                            *)

ScriptAngles == {10, 20, 50, 70, 90, 120, 170}

FullResult(a) ==
  [lm |-> TRUE, present |-> Required, lAngle |-> a, rAngle |-> 45, lVis |-> 4, rVis |-> 2]

InitScript == InitFrames /\ exerciseId \in {"lat-raise", "db-incline-fly"}

\* onResults of the next frame of the script, whose tracked angle is a
scriptFrame(a) ==
  /\ Len(fed) < ScriptLen
  /\ Track(FullResult(a))
  /\ Evaluate(FullResult(a))
  /\ LET ph == TrackResult(exerciseId, repState, modalDom, FullResult(a)).phase
     IN emitted' = IF ph = NoEmit THEN emitted ELSE Append(emitted, ph)
  /\ fed' = Append(fed, a)
  /\ UNCHANGED <<exerciseId, angleVars, loaderVars, streamTracks, streamVars, uiVars, driverVars>>

NextScript == \E a \in ScriptAngles : scriptFrame(a)

SpecScript == InitScript /\ [][NextScript]_vars

----------------------------------------------------------------------------
(* The exercise of the URL changes while the view stays mounted: the       *)
(* component renders again with the new exerciseId, keeps its state and    *)
(* its refs, and runs the modal effect again, exerciseId being one of its  *)
(* dependencies.                                                           *)

changeExercise(ex) ==
  /\ ex # exerciseId
  /\ exerciseId' = ex
  /\ RunModalEffect(Deps, TRUE)
  /\ pat' = 0
  /\ leftStart' = FALSE
  /\ UNCHANGED <<angleVars, loaderVars, form, streamTracks, streamVars, uiVars, scriptVars,
                 repState, reps, currentPhase>>

NextNavigate ==
  \/ \E ex \in Exercises : changeExercise(ex)
  \/ modalEffect
  \/ \E i \in Slots : ensureMPLoadedDone(i)
  \/ \E i \in Slots : playDone(i)
  \/ \E i \in Slots : pump(i)
  \/ \E i \in Slots, res \in SomeResults : sendDone(i, res)

SpecNavigate == InitFrames /\ [][NextNavigate]_vars

----------------------------------------------------------------------------
(* Frames seen by the Form Evaluator: results with wrists, with joints on  *)
(* both sides of the visibility threshold 0.5, with angles on and around   *)
(* the form thresholds, and results that miss one point or all of them,    *)
(* in the front view and in the side view.                                 *)

\* a result with every point, visibilities in tenths
FormResult(la, ra, lv, rv, lea, rea, lev, rev) ==
  [lm |-> TRUE, present |-> Points, lAngle |-> la, rAngle |-> ra, lVis |-> lv, rVis |-> rv,
   leAngle |-> lea, reAngle |-> rea, leVis |-> lev, reVis |-> rev]

ShoulderAngles == {9, 10, 44, 45, 90, 91, 180}

ElbowAngles == {149, 150, 170, 171, 180}

VisibilityPairs == {<<9, 6>>, <<6, 9>>, <<9, 9>>, <<9, 4>>, <<4, 9>>, <<4, 4>>, <<5, 6>>}

FormResults ==
  {NoLandmarks}
  \cup {FormResult(a, 60, 9, 6, 160, 160, 9, 6) : a \in ShoulderAngles}
  \cup {FormResult(60, a, 6, 9, 160, 160, 6, 9) : a \in {10, 91}}
  \cup {FormResult(60, 60, 9, 6, e, 160, 9, 6) : e \in ElbowAngles}
  \cup {FormResult(60, 60, 6, 9, 160, e, 6, 9) : e \in {150, 171}}
  \cup {FormResult(50, 60 + v[1] + v[2], v[1], v[2], 155, 165, v[2], v[1]) : v \in VisibilityPairs}
  \cup {[FormResult(50, 70, 9, 9, 155, 165, 9, 9) EXCEPT !.present = P] :
          P \in {Points \ {x} : x \in Points} \cup {{}}}

InitForm ==
  /\ exerciseId \in Configured \cup {"bench-press"}
  /\ repState = "start"
  /\ reps = 0
  /\ currentPhase = Sentinel
  /\ isModalOpen = TRUE
  /\ modalTarget \in {"front", "side"}
  /\ showMediaPipeOverlay = TRUE
  /\ modalDom = TRUE
  /\ effDeps = [open |-> TRUE, target |-> modalTarget, phase |-> Sentinel, mp |-> TRUE]
  /\ cur = 1
  /\ inst = [i \in Slots |-> IF i = 1 THEN [pc |-> "send", cancelled |-> FALSE, pose |-> "open", out |-> 1]
                                      ELSE Fresh]
  /\ rafModalRef = 0
  /\ mpPoseModalRef = 1
  /\ StreamsStarted
  /\ pat = 0
  /\ leftStart = FALSE
  /\ fed = << >>
  /\ emitted = << >>
  /\ LoaderInit
  /\ AngleInit
  /\ form = FormInit

NextForm ==
  \/ modalEffect
  \/ \E i \in Slots : ensureMPLoadedDone(i)
  \/ \E i \in Slots : playDone(i)
  \/ \E i \in Slots : pump(i)
  \/ \E i \in Slots, res \in FormResults : sendDone(i, res)

SpecForm == InitForm /\ [][NextForm]_vars

----------------------------------------------------------------------------
(* Camera streams of one mount of the view: selections, getUserMedia       *)
(* requests that resolve or fail in any order, Finish Session and unmount. *)

\* setFrontCam / setSideCam (device list at mount, or the select element), and
\* the effect of the new value: startStream up to its await
selectCamera(t, d) ==
  /\ mounted
  /\ d # cam[t]
  /\ \E r \in StreamIds :
       /\ streams[r].st = "free"
       /\ \A q \in StreamIds : q < r => streams[q].st # "free"
       /\ streams' = [streams EXCEPT ![r] = [st |-> "pending", target |-> t]]
  /\ cam' = [cam EXCEPT ![t] = d]
  /\ UNCHANGED <<exerciseId, angleVars, loaderVars, form, streamTracks, mounted, streamRef,
                 uiVars, driverVars, trackVars, scriptVars>>

\* getUserMedia resolves: startStream stops the stream the ref holds and
\* stores the new one
startStreamResolve(r) ==
  /\ streams[r].st = "pending"
  /\ LET t == streams[r].target
         old == streamRef[t]
         stopped == IF old # 0 /\ streams[old].st = "live"
                    THEN [streams EXCEPT ![old].st = stopStream(@)] ELSE streams
     IN /\ streams' = [stopped EXCEPT ![r].st = "live"]
        /\ streamRef' = [streamRef EXCEPT ![t] = r]
  /\ streamTracks' = TracksHeld(streams', streamRef')
  /\ UNCHANGED <<exerciseId, angleVars, loaderVars, form, mounted, cam,
                 uiVars, driverVars, trackVars, scriptVars>>

\* getUserMedia rejects: the catch logs the error
startStreamReject(r) ==
  /\ streams[r].st = "pending"
  /\ streams' = [streams EXCEPT ![r].st = "failed"]
  /\ UNCHANGED <<exerciseId, angleVars, loaderVars, form, streamTracks, mounted, cam, streamRef,
                 uiVars, driverVars, trackVars, scriptVars>>

\* the view unmounts: the cleanup of the modal effect, and the cleanup that
\* stops the streams the two refs hold
unmount ==
  /\ mounted
  /\ mounted' = FALSE
  /\ streams' = StopHeld(streams, streamRef)
  /\ streamTracks' = TracksHeld(streams', streamRef)
  /\ IF cur # 0 THEN Driver(Cleanup(inst, cur), 0, 0, 0)
                ELSE Driver(inst, rafModalRef, mpPoseModalRef, 0)
  /\ modalDom' = FALSE
  /\ UNCHANGED <<exerciseId, angleVars, loaderVars, form, cam, streamRef,
                 uiVars, effDeps, trackVars, scriptVars>>

\* a fresh mount: no camera selected, no request made
InitStreams ==
  /\ exerciseId \in Exercises
  /\ repState = "start"
  /\ reps = 0
  /\ currentPhase = Sentinel
  /\ isModalOpen = FALSE
  /\ modalTarget = "null"
  /\ showMediaPipeOverlay = TRUE
  /\ modalDom = FALSE
  /\ effDeps = [open |-> FALSE, target |-> "null", phase |-> Sentinel, mp |-> TRUE]
  /\ cur = 0
  /\ inst = [i \in Slots |-> Fresh]
  /\ rafModalRef = 0
  /\ mpPoseModalRef = 0
  /\ mounted = TRUE
  /\ cam = [t \in Targets |-> ""]
  /\ streams = [r \in StreamIds |-> NoStream]
  /\ streamRef = [t \in Targets |-> 0]
  /\ streamTracks = TracksHeld(streams, streamRef)
  /\ pat = 0
  /\ leftStart = FALSE
  /\ fed = << >>
  /\ emitted = << >>
  /\ LoaderInit
  /\ AngleInit
  /\ form = FormInit

NextStreams ==
  \/ \E t \in Targets, d \in Devices : selectCamera(t, d)
  \/ \E r \in StreamIds : startStreamResolve(r)
  \/ \E r \in StreamIds : startStreamReject(r)
  \/ mounted /\ handleFinishSession
  \/ unmount

SpecStreams == InitStreams /\ [][NextStreams]_vars

----------------------------------------------------------------------------
(* The Angle Calculator alone: calls on every triple of grid points and of *)
(* undefined points.                                                       *)

restVars == <<exerciseId, loaderVars, form, streamTracks, streamVars, uiVars, driverVars, trackVars, scriptVars>>

NextAngle ==
  \E A, B, C \in GridPoints \cup {Undefined} : angleCall(A, B, C) /\ UNCHANGED restVars

SpecAngle == Init /\ [][NextAngle]_vars

----------------------------------------------------------------------------
(* The loader alone: the drivers of one page (the side driver at mount,    *)
(* each run of the modal effect) call ensureMPLoaded in any interleaving.  *)

pageVars == <<exerciseId, angleVars, form, streamTracks, streamVars, uiVars, driverVars, trackVars, scriptVars>>

NextLoader ==
  \/ \E c \in Calls : ensureMPLoaded(c) /\ UNCHANGED pageVars
  \/ \E c \in Calls : loadScriptResolve(c) /\ UNCHANGED pageVars
  \/ \E c \in Calls : loadScriptReject(c) /\ UNCHANGED pageVars

SpecLoader == Init /\ [][NextLoader]_vars

----------------------------------------------------------------------------
(* Properties *)

\* C1: for "lat-raise", a processed frame with all six landmarks maps
\* (RepState, tracked angle) to: lifting and angle > 85 -> peak, "Lifting
\* Phase (Concentric)"; lowering and angle <= 30 -> start, reps + 1,
\* "Starting Position"; start and 30 < angle < 85 -> lifting, "Lifting Phase
\* (Concentric)"; peak and angle < 85 -> lowering, "Lowering Phase
\* (Eccentric)"; every other pair leaves RepState, reps and currentPhase.
C1_LatRaiseTable ==
  [][\A i \in Slots, res \in FullLandmarks :
       (exerciseId = "lat-raise" /\ modalDom /\ sendDone(i, res)) =>
         LET a == angleToTrack(res)
         IN IF repState = "lifting" /\ a > 85
            THEN repState' = "peak" /\ reps' = reps
                 /\ currentPhase' = "Lifting Phase (Concentric)"
            ELSE IF repState = "lowering" /\ a <= 30
            THEN repState' = "start" /\ reps' = reps + 1
                 /\ currentPhase' = "Starting Position"
            ELSE IF repState = "start" /\ 30 < a /\ a < 85
            THEN repState' = "lifting" /\ reps' = reps
                 /\ currentPhase' = "Lifting Phase (Concentric)"
            ELSE IF repState = "peak" /\ a < 85
            THEN repState' = "lowering" /\ reps' = reps
                 /\ currentPhase' = "Lowering Phase (Eccentric)"
            ELSE UNCHANGED <<repState, reps, currentPhase>>]_vars

\* a second lateral-raise cycle has reached its peak
C1_Witness ==
  exerciseId = "lat-raise" /\ reps = 1 /\ repState = "peak"

\* C2: for "db-incline-fly", a processed frame with all six landmarks maps
\* (RepState, tracked angle) to: descending and angle <= 95 -> bottom,
\* "Descent Phase (Eccentric)"; ascending and angle >= 160 -> start,
\* reps + 1, "Setup/Start Position"; start and 95 < angle < 160 ->
\* descending, "Descent Phase (Eccentric)"; bottom and angle > 95 ->
\* ascending, "Ascent Phase (Concentric)"; every other pair leaves RepState,
\* reps and currentPhase.
C2_InclineFlyTable ==
  [][\A i \in Slots, res \in FullLandmarks :
       (exerciseId = "db-incline-fly" /\ modalDom /\ sendDone(i, res)) =>
         LET a == angleToTrack(res)
         IN IF repState = "descending" /\ a <= 95
            THEN repState' = "bottom" /\ reps' = reps
                 /\ currentPhase' = "Descent Phase (Eccentric)"
            ELSE IF repState = "ascending" /\ a >= 160
            THEN repState' = "start" /\ reps' = reps + 1
                 /\ currentPhase' = "Setup/Start Position"
            ELSE IF repState = "start" /\ 95 < a /\ a < 160
            THEN repState' = "descending" /\ reps' = reps
                 /\ currentPhase' = "Descent Phase (Eccentric)"
            ELSE IF repState = "bottom" /\ a > 95
            THEN repState' = "ascending" /\ reps' = reps
                 /\ currentPhase' = "Ascent Phase (Concentric)"
            ELSE UNCHANGED <<repState, reps, currentPhase>>]_vars

\* a second incline-fly cycle is on its way up
C2_Witness ==
  exerciseId = "db-incline-fly" /\ reps = 1 /\ repState = "ascending"

\* C3: from RepState start and reps 0 with "lat-raise", the tracked angles
\* 10, 50, 90, 70, 20, one per frame, emit exactly "Lifting Phase
\* (Concentric)", "Lifting Phase (Concentric)", "Lowering Phase (Eccentric)",
\* "Starting Position", the first frame emitting nothing, and end with
\* reps = 1 and RepState = start.
C3_ScriptedCycle ==
  exerciseId = "lat-raise" =>
    /\ fed = <<10>> => emitted = << >>
    /\ fed = <<10, 50, 90, 70, 20>> =>
         /\ emitted = <<"Lifting Phase (Concentric)", "Lifting Phase (Concentric)",
                        "Lowering Phase (Eccentric)", "Starting Position">>
         /\ reps = 1
         /\ repState = "start"

\* the whole script has been fed
C3_Witness ==
  exerciseId = "lat-raise" /\ fed = <<10, 50, 90, 70, 20>>

\* C4: every rep increment is preceded, since the previous increment or the
\* initialisation, by frames whose angles fired the cycle's transitions in
\* order: for lat-raise an angle in (30,85), then one > 85, then one < 85,
\* then the counting frame with angle <= 30; for db-incline-fly an angle in
\* (95,160), then one <= 95, then one > 95, then the counting frame with
\* angle >= 160.
C4_FullCycleBeforeCount ==
  [][reps' = reps + 1 =>
       /\ pat = 3
       /\ \E i \in Slots, res \in FullLandmarks :
            /\ sendDone(i, res)
            /\ \/ exerciseId = "lat-raise" /\ angleToTrack(res) <= 30
               \/ exerciseId = "db-incline-fly" /\ angleToTrack(res) >= 160]_vars

\* a count has just been made and the next cycle's pattern has started
C4_Witness ==
  reps = 1 /\ pat = 1 /\ repState \in {"lifting", "descending"}

\* C5: reps changes only by +1 on the rep-completing transition of a frame,
\* or to 0 by Finish Session; opening or closing the modal, the overlay
\* toggles, frames without landmarks and Frame Driver restarts leave it.
C5_RepsChanges ==
  [][reps' # reps =>
       \/ reps' = 0 /\ handleFinishSession
       \/ /\ reps' = reps + 1
          /\ repState \in {"lowering", "ascending"} /\ repState' = "start"
          /\ \E i \in Slots, res \in FullLandmarks : sendDone(i, res)]_vars

\* a rep was counted and the modal has since been closed
C5_Witness ==
  reps = 1 /\ ~isModalOpen

\* C6: no double counting: a count needs the tracked angle at or past the
\* start threshold (<= 30 for lat-raise, >= 160 for db-incline-fly), and
\* between two counts, or the initialisation and the first, an angle beyond
\* that threshold; oscillation around 85 (95) above (below) it adds nothing.
C6_NoDoubleCount ==
  [][reps' > reps =>
       /\ leftStart
       /\ \A i \in Slots, res \in FullLandmarks :
            sendDone(i, res) =>
              ~BeyondStart(exerciseId, angleToTrack(res))]_vars

\* a rep is counted, the angle has stayed at rest since, and no second rep
C6_Witness ==
  reps = 1 /\ repState = "start" /\ ~leftStart /\ pat = 0

\* C7: a processed frame lacking any of the six required landmarks sets
\* currentPhase to the sentinel and leaves RepState and reps as they were,
\* for every exercise and every RepState.
C7_MissingLandmarkStalls ==
  [][\A i \in Slots, res \in PartialLandmarks :
       (modalDom /\ sendDone(i, res)) =>
         /\ currentPhase' = Sentinel
         /\ UNCHANGED <<repState, reps>>]_vars

\* the machine is stalled in mid-cycle with the sentinel shown
C7_Witness ==
  repState \in {"peak", "bottom"} /\ currentPhase = Sentinel

\* C8: whenever a result arrives whose landmarks are insufficient for
\* tracking, a result without any landmark set included, currentPhase is
\* the sentinel once the result has been processed.
C8_InsufficientShowsSentinel ==
  [][\A i \in Slots, res \in {NoLandmarks} \cup PartialLandmarks :
       (modalDom /\ sendDone(i, res)) => currentPhase' = Sentinel]_vars

\* C9: for an exercise other than "lat-raise" and "db-incline-fly", the
\* empty identifier included, currentPhase stays the sentinel, RepState
\* never changes and reps is never incremented, whatever frames arrive.
C9_UnsupportedExercise ==
  exerciseId \notin {"lat-raise", "db-incline-fly"} =>
    currentPhase = Sentinel /\ repState = "start" /\ reps = 0

\* a frame of the empty exercise identifier has been processed
C9_Witness ==
  exerciseId = "" /\ inst[1].pc = "raf" /\ rafModalRef = 1 /\ inst[1].pose = "open"

\* C10: once the effect's cleanup has stopped a Frame Driver instance, the
\* instance submits no further frame to the Pose Source, whether it was
\* stopped with a frame pending, a send in flight, or while initialising.
C10_NoSendAfterStop ==
  [][\A i \in Slots :
       (inst[i].cancelled /\ inst[i].pc # "send") => inst'[i].pc # "send"]_vars

\* a stopped instance whose send was in flight has requested another frame
C10_Witness ==
  \E i \in Slots : inst[i].cancelled /\ inst[i].pc = "raf" /\ rafModalRef = i

\* C11: after Finish Session no Frame Driver requests another animation
\* frame or submits another frame to the Pose Source, a driver whose send
\* was in flight when the session was finished included.
C11_FinishStopsDrivers ==
  [][streamTracks["front"] = "ended" =>
       \A i \in Slots :
         /\ inst'[i].pc = "raf" => inst[i].pc = "raf" /\ rafModalRef' = rafModalRef
         /\ inst'[i].pc = "send" => inst[i].pc = "send"]_vars

\* C12: once the modal is closed and its effect has run, no Pose Source
\* instance created by a modal Frame Driver remains unreleased, whatever
\* the driver was doing when it was torn down.
C12_PoseReleased ==
  (~isModalOpen /\ effDeps = Deps /\ \A i \in Slots : inst[i].pc \in {"free", "done"}) =>
    \A i \in Slots : inst[i].pose # "open"

\* C13: a Frame Driver instance has at most one submission to the Pose
\* Source that has not completed.
C13_OneOutstandingSend ==
  \A i \in Slots : inst[i].out <= 1 /\ (inst[i].out = 1 <=> inst[i].pc = "send")

\* a send is in flight while another instance is alive
C13_Witness ==
  \E i, j \in Slots : i # j /\ inst[i].out = 1 /\ inst[j].pc \in {"raf", "send"}

\* C14: a send that rejects does not end the loop of a driver that has not
\* been stopped: pump still requests the next animation frame.
C14_FailedSendContinues ==
  [][\A i \in Slots :
       (sendFail(i) /\ ~inst[i].cancelled) => inst'[i].pc = "raf"]_vars

\* C15: a Frame Driver instance submits frames only to the Pose Source it
\* created itself; it never uses one that a stopped instance stored in the
\* shared reference.
C15_OwnPoseOnly ==
  [][\A i \in Slots :
       (~inst[i].cancelled /\ inst[i].pc = "raf" /\ inst'[i].pc = "send") =>
         mpPoseModalRef = i]_vars

\* C16: on each landmark callback the form evaluation (shoulder and elbow
\* form flags) runs before the phase/rep update of that frame.
C16_FormBeforePhase ==
  [][\A i \in Slots, res \in FullLandmarks :
       (modalDom /\ sendDone(i, res)) =>
         LET s == onResultsStages(modalDom, res, showMediaPipeOverlay)
         IN \E j, k \in DOMAIN s :
              j < k /\ s[j] = "updateShoulderAngles" /\ s[k] = "handlePhaseAndRepTracking"]_vars

\* C17: for the current RepState and every angle, the four rules of the
\* exercise's table give the code's result in whichever order they are
\* evaluated: their conditions name different RepStates, so at most one
\* applies.
C17_OrderIrrelevant ==
  exerciseId \in {"lat-raise", "db-incline-fly"} =>
    \A a \in Angles, o \in Orders :
      FirstMatch(Rules(exerciseId, repState, a), o, repState)
        = handlePhaseAndRepTracking(exerciseId, repState, FullResult(a))

\* a lateral raise is on its way down, where the rules for <= 30 and < 85 meet
C17_Witness ==
  exerciseId = "lat-raise" /\ repState = "lowering" /\ currentPhase = "Lowering Phase (Eccentric)"

\* C17 as stated: for the exercise's table some (RepState, angle) pair gives
\* a different result when the four rules are evaluated in a different order.
C17_OrderMatters ==
  \E st \in RepStates, a \in 0..180, o \in Orders :
    FirstMatch(Rules(exerciseId, st, a), o, st)
      # FirstMatch(Rules(exerciseId, st, a), <<1, 2, 3, 4>>, st)

\* C18: when a Frame Driver instance is created, on opening the modal or on
\* a re-run of its effect, RepState is start.
C18_ResetAtInit ==
  [][(\E i \in Slots : /\ inst'[i].pc = "load" /\ ~inst'[i].cancelled
                        /\ (inst[i].pc # "load" \/ inst[i].cancelled))
       => repState' = "start"]_vars

\* C19: the tracked angle of a frame is the left side's when the left
\* shoulder's visibility is strictly greater than the right one's, else the
\* right side's; the frame's landmarks alone decide.
C19_SideSelection ==
  \A res \in FullLandmarks :
    LET a == IF res.lVis > res.rVis THEN res.lAngle ELSE res.rAngle
    IN handlePhaseAndRepTracking(exerciseId, repState, res)
         = CASE exerciseId = "lat-raise"      -> LatRaise(repState, a)
             [] exerciseId = "db-incline-fly" -> InclineFly(repState, a)
             [] OTHER                         -> DefaultCase(repState, a)

\* an incline fly has reached the bottom
C19_Witness ==
  exerciseId = "db-incline-fly" /\ repState = "bottom" /\ currentPhase = "Descent Phase (Eccentric)"

\* C20: closing the modal stops the modal's Frame Driver and unmounts the
\* modal video; the tracks of the front and side streams, reps and RepState
\* stay as they were.
C20_CloseModalKeepsStreams ==
  [][closeModal =>
       /\ UNCHANGED <<streamTracks, streamVars, reps, repState>>
       /\ ~modalDom' /\ cur' = 0
       /\ cur # 0 => inst'[cur].cancelled \/ inst'[cur].pc = "free"]_vars

\* the modal was closed in mid-cycle and the cameras are still live
C20_Witness ==
  /\ ~isModalOpen /\ cur = 0 /\ repState \in {"lifting", "descending"}
  /\ streamTracks["front"] = "live" /\ streamTracks["side"] = "live"

\* C21: each Pose Source library script is injected at most once in a page
\* lifetime, however the calls of ensureMPLoaded interleave.
C21_ScriptsLoadedOnce == \A src \in ScriptSrcs : scripts[src] <= 1

\* C22: the correctness reported for a visible joint is true when the exercise
\* has no threshold for the joint, and otherwise says that the reported angle
\* lies between the joint's minimum and maximum, both included.
C22_FormWithinThreshold ==
  \A j \in Joints, sd \in {"left", "right"} :
    LET v == form[j][sd]
    IN v.visible =>
         (v.correct <=>
            CASE exerciseId = "lat-raise" /\ j = "shoulder"      -> v.angle >= 10 /\ v.angle <= 90
              [] exerciseId = "lat-raise" /\ j = "elbow"         -> v.angle >= 150 /\ v.angle <= 180
              [] exerciseId = "db-incline-fly" /\ j = "shoulder" -> v.angle >= 45 /\ v.angle <= 180
              [] exerciseId = "db-incline-fly" /\ j = "elbow"    -> v.angle >= 150 /\ v.angle <= 170
              [] OTHER                                           -> TRUE)

\* a shoulder reported correct at the maximum of its range
C22_Witness ==
  /\ exerciseId = "lat-raise"
  /\ form.shoulder.left = [angle |-> 90, visible |-> TRUE, correct |-> TRUE]

\* C23: in the side view at most one side of a joint is reported visible, a
\* side that is not visible is reported with the defaults, and of two sides
\* that both qualify the one of strictly higher visibility is surfaced, the
\* right one when they are equal.
C23_OneSideSurfaced ==
  effDeps.target = "side" =>
    /\ \A j \in Joints :
         /\ ~(form[j].left.visible /\ form[j].right.visible)
         /\ \A sd \in {"left", "right"} : ~form[j][sd].visible => form[j][sd] = Hidden
    /\ \A res \in FormResults \ {NoLandmarks}, j \in Joints :
         LET u == IF j = "shoulder" THEN updateShoulderAngles(exerciseId, effDeps.target, res)
                                    ELSE updateElbowAngles(exerciseId, effDeps.target, res)
             qualifies(sd) == /\ JointPoints(j, sd) \subseteq res.present
                              /\ JointVisibility(res, j, sd) > 5
         IN qualifies("left") /\ qualifies("right") =>
              IF JointVisibility(res, j, "left") > JointVisibility(res, j, "right")
              THEN u.left.visible /\ u.left.angle = JointAngle(res, j, "left") /\ u.right = Hidden
              ELSE u.right.visible /\ u.right.angle = JointAngle(res, j, "right") /\ u.left = Hidden

\* the side view after a frame whose shoulders are equally visible
C23_Witness ==
  /\ modalTarget = "side"
  /\ form.shoulder.right.visible /\ form.shoulder.right.angle = 78
  /\ form.shoulder.left = Hidden

\* C24: after a frame that lacks one of a joint's three points, or that has
\* no landmark set at all, the joint is reported with the defaults.
C24_MissingReportsDefaults ==
  [][\A i \in Slots, res \in FormResults :
       sendDone(i, res) =>
         \A j \in Joints, sd \in {"left", "right"} :
           (~res.lm \/ ~(JointPoints(j, sd) \subseteq res.present)) => form'[j][sd] = Hidden]_vars

\* C25: the value calculateAngle returns lies in the closed range 0..180
\* degrees, and for three defined points it is the difference of the two
\* directions at B, replaced by 360 minus itself when it exceeds 180.
C25_AngleInRange ==
  degrees # -1 =>
    /\ degrees >= 0 /\ degrees <= 180000
    /\ (\A k \in 1..3 : triple[k].def) =>
         LET raw == Abs(Atan2(triple[2].y - triple[3].y, triple[2].x - triple[3].x)
                        - Atan2(triple[2].y - triple[1].y, triple[2].x - triple[1].x))
         IN degrees = IF raw > 180000 THEN 360000 - raw ELSE raw

\* a call whose raw difference exceeds 180 degrees has returned
C25_Witness ==
  /\ degrees # -1
  /\ \A k \in 1..3 : triple[k].def
  /\ Abs(Atan2(triple[2].y - triple[3].y, triple[2].x - triple[3].x)
          - Atan2(triple[2].y - triple[1].y, triple[2].x - triple[1].x)) > 180000

\* C26: a processed frame leaves RepState where it is or moves it to the
\* successor of its value in the exercise's cycle, and a repetition is
\* counted only after at least four processed frames.
C26_OneStepForward ==
  /\ [][repState' # repState =>
          <<repState, repState'>> \in
            IF exerciseId = "lat-raise"
            THEN {<<"start", "lifting">>, <<"lifting", "peak">>,
                  <<"peak", "lowering">>, <<"lowering", "start">>}
            ELSE {<<"start", "descending">>, <<"descending", "bottom">>,
                  <<"bottom", "ascending">>, <<"ascending", "start">>}]_vars
  /\ [](reps > 0 => Len(fed) >= 4)

\* a repetition counted on the fourth frame
C26_Witness == reps = 1 /\ Len(fed) = 4 /\ repState = "start"

\* C27: RepState is always one of the four states of the cycle of the
\* selected exercise, also after the exercise has changed in a mounted view.
C27_RepStateInCycle ==
  /\ exerciseId = "lat-raise" => repState \in {"start", "lifting", "peak", "lowering"}
  /\ exerciseId = "db-incline-fly" => repState \in {"start", "descending", "bottom", "ascending"}

\* C28: Finish Session sets reps to 0 and leaves RepState and currentPhase
\* as they are, so the frames processed afterwards continue the cycle.
C28_FinishKeepsCycle ==
  [][handleFinishSession =>
       reps' = 0 /\ repState' = repState /\ currentPhase' = currentPhase]_vars

\* a finished session (its streams are stopped) in which the frames processed
\* afterwards completed a cycle: the count, cleared by the finish, is 1
C28_Witness ==
  /\ streamTracks["front"] = "ended"
  /\ reps = 1
  /\ repState = "start"
  /\ pat = 0

\* C29: currentPhase is the sentinel or the phase emitted by the transition
\* that entered the current RepState, and once it is the sentinel it stays
\* the sentinel for as long as RepState keeps its value.
C29_PhaseOfStateOrSentinel ==
  /\ [](\/ currentPhase = Sentinel
        \/ currentPhase \in
             CASE repState \in {"lifting", "peak"}      -> {"Lifting Phase (Concentric)"}
               [] repState = "lowering"                 -> {"Lowering Phase (Eccentric)"}
               [] repState \in {"descending", "bottom"} -> {"Descent Phase (Eccentric)"}
               [] repState = "ascending"                -> {"Ascent Phase (Concentric)"}
               [] OTHER -> {"Starting Position", "Setup/Start Position"})
  /\ [][currentPhase = Sentinel /\ repState' = repState => currentPhase' = Sentinel]_vars

\* the sentinel shown in mid-cycle, after frames that moved no state
C29_Witness ==
  /\ currentPhase = Sentinel
  /\ repState = "peak"
  /\ reps = 1

\* C30: once the view is unmounted no stream it acquired is live, and at any
\* time at most one stream of each target is live.
C30_NoStreamOutlivesView ==
  /\ ~mounted => \A r \in StreamIds : streams[r].st # "live"
  /\ \A t \in Targets :
       Cardinality({r \in StreamIds : streams[r].st = "live" /\ streams[r].target = t}) <= 1

====
